---- MODULE Spec2Model ----
(***************************************************************************)
(* Model of the action sequencer of the mobile QA agent:                   *)
(* PlannerAgent, ExecutorAgent, SupervisorAgent and                        *)
(* MobileQAOrchestrator.run_test of src/agents.py, with the device         *)
(* functions of src/adb_tools.py they call.                                *)
(*                                                                         *)
(* A Python dict is a function over its keys; dict.get(k, d) is Get.       *)
(* action_params is a sequence of <<key, value>> pairs in insertion order, *)
(* which is what str() of the dict renders.  The free-text "reasoning" key *)
(* of an action is never read by the sequencer and is left out.            *)
(***************************************************************************)
EXTENDS Integers, Sequences, FiniteSets, TLC

VARIABLES
    test_case,    \* the test description handed to run_test
    history,      \* PlannerAgent.history
    step_count,   \* run_test's local step_count
    pc,           \* "idle" | "loop" | "break" | "returned" | "suite_returned"
    screenshot,   \* outcome of the iteration's take_screenshot()
    source,       \* which code path produced the iteration's action
    proposal,     \* what the inference call yielded in the iteration
    device,       \* what the device bridge did in the iteration
    final_result, \* TestResult.final_result of the run
    results,      \* run_test_suite's results: the final_result of each run
    tracker,      \* a MetricsTracker with its TestMetrics (metrics.py)
    call,         \* the library call made last: function, arguments, result
                  \* (of a record_step, in place of the arguments, the
                  \* subgoals whose predicate holds of them)
    fired         \* subgoals whose predicate some recorded step satisfied

\* The state of a run of the sequencer, and the state of the library
\* functions that are exercised on their own.
agent_vars == <<test_case, history, step_count, pc, screenshot, source,
                proposal, device, final_result, results>>

library_vars == <<tracker, call, fired>>

vars == <<test_case, history, step_count, pc, screenshot, source, proposal,
          device, final_result, results, tracker, call, fired>>

(***************************************************************************)
(* Bounds                                                                  *)
(***************************************************************************)
\* Step budget the orchestrator is checked with (the attribute
\* self.max_steps is assignable; the shipped default is 20).
MaxSteps == 5

max_steps == MaxSteps

\* Most test cases handed to run_test_suite.
MaxTests == 2

(***************************************************************************)
(* Dicts                                                                   *)
(***************************************************************************)
None == [none |-> TRUE]

Get(d, k, default) == IF k \in DOMAIN d THEN d[k] ELSE default

Action(type, params) == [action_type |-> type, action_params |-> params]

(***************************************************************************)
(* Test descriptions: a sequence of phrases; lower() per phrase, and       *)
(* `key in test_case.lower()` is a search for the lowercased phrase.       *)
(***************************************************************************)
TEST_CASES ==
    { <<"Open Obsidian", "InternVault">>,
      <<"Meeting Notes", "Daily Standup">>,
      <<"Settings", "Appearance">> }

lower(s) ==
    CASE s = "InternVault"   -> "internvault"
      [] s = "Meeting Notes" -> "meeting notes"
      [] s = "Daily Standup" -> "daily standup"
      [] s = "Open Obsidian" -> "open obsidian"
      [] s = "Settings"      -> "settings"
      [] s = "Create"        -> "create"
      [] s = "Meeting"       -> "meeting"
      [] s = "Notes"         -> "notes"
      [] s = "Daily"         -> "daily"
      [] s = "Standup"       -> "standup"
      [] s = "TapElementByText" -> "tapelementbytext"
      [] s = "GetScreenElements" -> "getscreenelements"
      [] s = "Vault"         -> "vault"
      [] s = "My"            -> "my"
      [] s = "android.widget.Button"   -> "android.widget.button"
      [] s = "android.widget.TextView" -> "android.widget.textview"
      [] s = "android.widget.EditText" -> "android.widget.edittext"
      [] s = "android.view.View"       -> "android.view.view"
      [] s = "Appearance"    -> "appearance"
      [] OTHER               -> s

Contains(tc, key) == \E i \in DOMAIN tc : lower(tc[i]) = key

\* Mutant: the keys are compared in the case the description writes them.
text_to_type_mixed_case(tc) ==
    IF Contains(tc, "InternVault") THEN "InternVault"
    ELSE IF Contains(tc, "Meeting Notes") THEN "Meeting Notes"
    ELSE IF Contains(tc, "Daily Standup") THEN "Daily Standup"
    ELSE "None"

\* Mutant: the chain ends in a default text instead of None.
text_to_type_default(tc) ==
    IF Contains(tc, "internvault") THEN "InternVault"
    ELSE IF Contains(tc, "meeting notes") THEN "Meeting Notes"
    ELSE IF Contains(tc, "daily standup") THEN "Daily Standup"
    ELSE "InternVault"

\* Mutant: the chain tests 'daily standup' before 'meeting notes'.
text_to_type_daily_first(tc) ==
    IF Contains(tc, "internvault") THEN "InternVault"
    ELSE IF Contains(tc, "daily standup") THEN "Daily Standup"
    ELSE IF Contains(tc, "meeting notes") THEN "Meeting Notes"
    ELSE "None"

\* The if/elif chain both in _get_required_next_action and in run_test.
text_to_type(tc) ==
    IF Contains(tc, "internvault") THEN "InternVault"
    ELSE IF Contains(tc, "meeting notes") THEN "Meeting Notes"
    ELSE IF Contains(tc, "daily standup") THEN "Daily Standup"
    ELSE "None"

(***************************************************************************)
(* External collaborators: what the inference call, the screenshot capture *)
(* and the device bridge can answer.                                       *)
(***************************************************************************)
\* Replies of client.chat.completions.create as plan_next_action sees them:
\* a JSON object with an action_type, or one of the failure shapes.
Proposals ==
    { Action("tap_element", << <<"text", "Create a vault">> >>),
      Action("tap_input_by_label", << <<"label", "Vault name">> >>),
      Action("tap_input", << <<"x", "540">>, <<"y", "600">> >>),
      Action("type_text", << <<"text", "My note">> >>),
      Action("clear_and_type", << <<"text", "My note">> >>),
      Action("done", << <<"result", "PASS">> >>),
      Action("failed", << <<"reason", "Cannot continue">> >>) }

Replies ==
    [kind : {"json"}, action : Proposals]
    \cup [kind : {"bad_json", "no_action_type", "rate_limited", "api_error"},
          action : {None}]

NoReply == [kind |-> "none", action |-> None]

\* Outcomes of a device call.  ok: adb exits 0; nonzero: adb exits non-zero;
\* timeout: TimeoutExpired; not_found: the UI lookup finds no element for the
\* text or label.

(***************************************************************************)
(* src/adb_tools.py: the message each device function returns, reduced to  *)
(* whether it contains the word "Error" (all the executor reads).          *)
(***************************************************************************)
\* tap, swipe, type_text, press_back, press_enter share this shape.
adb_command(dev) ==
    CASE dev = "timeout" -> "Error"
      [] dev = "nonzero" -> "Failed"
      [] OTHER           -> "Done"

\* tap_input_field drops what tap() returns.
tap_input_field(dev) == "Focused"

tap_element(dev) ==
    IF dev = "not_found" THEN "Error" ELSE adb_command(dev)

tap_input_by_label(dev) ==
    IF dev = "not_found" THEN "Error" ELSE tap_input_field(dev)

Param(params, key, default) ==
    IF \E i \in DOMAIN params : params[i][1] = key
    THEN params[CHOOSE i \in DOMAIN params : params[i][1] = key][2]
    ELSE default

(***************************************************************************)
(* ExecutorAgent.execute: the success flag of the ActionResult.            *)
(***************************************************************************)
execute(action_type, action_params, dev) ==
    CASE action_type = "tap" -> adb_command(dev) # "Error"
      [] action_type = "tap_element" ->
            IF Param(action_params, "text", "") = "" THEN FALSE
            ELSE tap_element(dev) # "Error"
      [] action_type = "tap_input" -> tap_input_field(dev) # "Error"
      [] action_type = "tap_input_by_label" ->
            IF Param(action_params, "label", "") = "" THEN FALSE
            ELSE tap_input_by_label(dev) # "Error"
      [] action_type \in {"swipe", "type_text", "press_back", "press_enter"} ->
            adb_command(dev) # "Error"
      [] action_type = "wait" -> TRUE
      [] action_type \in {"done", "failed"} -> TRUE
      [] OTHER -> FALSE

\* The device outcomes enumerated for an action type: those the executor
\* tells apart, and for tap_element and tap_input one error it does not.
DeviceOutcomesOf(action_type) ==
    CASE action_type = "tap_element" -> {"ok", "nonzero", "timeout"}
      [] action_type = "tap_input_by_label" -> {"ok", "not_found"}
      [] action_type \in {"tap", "tap_input", "swipe", "type_text",
                          "press_back", "press_enter"} ->
            {"ok", "timeout"}
      [] OTHER -> {"ok"}

(***************************************************************************)
(* PlannerAgent                                                            *)
(***************************************************************************)
\* f"{a.get('action_type')}:{a.get('action_params', {})}"
action_str(a) == <<Get(a, "action_type", "None"), Get(a, "action_params", <<>>)>>

LastN(h, n) == SubSeq(h, Len(h) - n + 1, Len(h))

LOOP_FAILED ==
    Action("failed", << <<"reason", "Stuck in loop. Need different approach.">> >>)

OSCILLATION_FAILED ==
    Action("failed",
           << <<"reason", "Stuck oscillating. One action is taking us backwards.">> >>)

\* Mutant: the repeated-action test is left out.
check_for_loop_oscillation_only(h) ==
    IF Len(h) >= 4
       /\ LastN(h, 4)[1].action_type = LastN(h, 4)[3].action_type
       /\ LastN(h, 4)[2].action_type = LastN(h, 4)[4].action_type
       /\ LastN(h, 4)[1].action_type # LastN(h, 4)[2].action_type
    THEN OSCILLATION_FAILED
    ELSE None

\* Mutant: the oscillation test is left out.
check_for_loop_repeats_only(h) ==
    IF Len(h) < 3 THEN None
    ELSE IF Cardinality({action_str(LastN(h, 3)[i]) : i \in 1..3}) = 1
    THEN LOOP_FAILED
    ELSE None

\* PlannerAgent._check_for_loop
check_for_loop(h) ==
    IF Len(h) < 3 THEN None
    ELSE IF Cardinality({action_str(LastN(h, 3)[i]) : i \in 1..3}) = 1
    THEN LOOP_FAILED
    ELSE IF Len(h) >= 4
            /\ LET last_4 == LastN(h, 4)
               IN  /\ Get(last_4[1], "action_type", "None")
                        = Get(last_4[3], "action_type", "None")
                   /\ Get(last_4[2], "action_type", "None")
                        = Get(last_4[4], "action_type", "None")
                   /\ Get(last_4[1], "action_type", "None")
                        # Get(last_4[2], "action_type", "None")
    THEN OSCILLATION_FAILED
    ELSE None

\* Mutant: press_enter is not forced after type_text.
get_required_next_action_no_enter(h, tc) ==
    IF h = <<>> THEN None
    ELSE IF /\ h[Len(h)].action_type \in {"tap_input_by_label", "tap_input"}
            /\ h[Len(h)].result = "success"
            /\ text_to_type(tc) # "None"
    THEN Action("type_text", << <<"text", text_to_type(tc)>> >>)
    ELSE None

\* PlannerAgent._get_required_next_action
get_required_next_action(h, tc) ==
    IF h = <<>> THEN None
    ELSE LET last_action == h[Len(h)]
             last_type   == Get(last_action, "action_type", "")
             last_result == Get(last_action, "result", "")
         IN  IF /\ last_type \in {"tap_input_by_label", "tap_input"}
                /\ last_result = "success"
                /\ text_to_type(tc) # "None"
             THEN Action("type_text", << <<"text", text_to_type(tc)>> >>)
             ELSE IF last_type = "type_text" /\ last_result = "success"
             THEN Action("press_enter", <<>>)
             ELSE None

\* Mutant: a rate-limited call is answered with a failed action like any
\* other error of the inference call.
parse_reply_rate_limit_fails(reply) ==
    CASE reply.kind = "json" -> reply.action
      [] reply.kind = "no_action_type" ->
            Action("failed", << <<"reason", "Missing action_type">> >>)
      [] reply.kind = "bad_json" ->
            Action("failed", << <<"reason", "Could not parse response">> >>)
      [] OTHER ->
            Action("failed", << <<"reason", "api error">> >>)

\* The try/except around the inference call in plan_next_action.
parse_reply(reply) ==
    CASE reply.kind = "json" -> reply.action
      [] reply.kind = "no_action_type" ->
            Action("failed", << <<"reason", "Missing action_type">> >>)
      [] reply.kind = "bad_json" ->
            Action("failed", << <<"reason", "Could not parse response">> >>)
      [] reply.kind = "rate_limited" ->
            Action("wait", << <<"seconds", "2">> >>)
      [] OTHER ->
            Action("failed", << <<"reason", "api error">> >>)

\* PlannerAgent.plan_next_action: the action and the path that produced it.
\* loop_result and required_action are the values of _check_for_loop() and
\* _get_required_next_action(test_case); reply is what the inference call
\* yields if it is reached.
plan_next_action(loop_result, required_action, reply) ==
    IF loop_result # None
    THEN [action |-> loop_result, source |-> "detector"]
    ELSE IF required_action # None
    THEN [action |-> required_action, source |-> "required"]
    ELSE [action |-> parse_reply(reply), source |-> "model"]

\* Mutant: a failed action is not recorded.
record_action_drops_failed(h, action, result) ==
    IF result = "FAILED" THEN h
    ELSE Append(h, [action_type   |-> action.action_type,
                    action_params |-> action.action_params,
                    result        |-> result])

\* Mutant: reset keeps the records of the run before.
reset_keeps_history(h) == h

\* PlannerAgent.reset
reset(h) == <<>>

\* PlannerAgent.record_action
record_action(h, action, result) ==
    Append(h, [action_type   |-> action.action_type,
               action_params |-> action.action_params,
               result        |-> result])

(***************************************************************************)
(* MobileQAOrchestrator.run_test                                           *)
(***************************************************************************)
\* The SAFEGUARD block of run_test, applied to the planner's action.
safeguard(h, tc, action) ==
    IF /\ h # <<>>
       /\ Get(h[Len(h)], "action_type", "None") \in {"tap_input", "tap_input_by_label"}
       /\ Get(action, "action_type", "None") # "type_text"
       /\ text_to_type(tc) # "None"
    THEN Action("type_text", << <<"text", text_to_type(tc)>> >>)
    ELSE action

\* Mutant: the loop admits one iteration more.
loop_continues_one_more == step_count <= max_steps

\* Mutant: the loop stops one iteration early.
loop_continues_one_less == step_count < max_steps - 1

\* The while condition.
loop_continues == step_count < max_steps

\* The inference call is reached only when neither the detector nor the
\* required-action rule returns first.
RepliesAt(loop_result, required_action) ==
    IF loop_result = None /\ required_action = None THEN Replies ELSE {NoReply}

Init ==
    /\ test_case = <<>>
    /\ history = <<>>
    /\ step_count = 0
    /\ pc = "idle"
    /\ screenshot = "none"
    /\ source = "none"
    /\ proposal = NoReply
    /\ device = "none"
    /\ final_result = "none"
    /\ results = <<>>
    /\ tracker = None
    /\ call = None
    /\ fired = {}

\* run_test up to the loop: planner.reset(), step_count = 0; the locals
\* of the call are fresh.
run_test_begins(tc) ==
    /\ test_case' = tc
    /\ history' = reset(history)
    /\ step_count' = 0
    /\ pc' = "loop"
    /\ screenshot' = "none"
    /\ source' = "none"
    /\ proposal' = NoReply
    /\ device' = "none"
    /\ final_result' = "none"

\* The first call of run_test, directly or by run_test_suite.
RunTest ==
    /\ pc = "idle"
    /\ \E tc \in TEST_CASES : run_test_begins(tc)
    /\ UNCHANGED results
    /\ UNCHANGED library_vars

\* run_test_suite between two test cases: the result is appended and
\* run_test is called with the next test case.
NextTest ==
    /\ pc = "returned"
    /\ Len(results) + 1 < MaxTests
    /\ results' = Append(results, final_result)
    /\ \E tc \in TEST_CASES : run_test_begins(tc)
    /\ UNCHANGED library_vars

\* run_test_suite after the last test case.
ReturnSuite ==
    /\ pc = "returned"
    /\ Len(results) + 1 = MaxTests
    /\ results' = Append(results, final_result)
    /\ pc' = "suite_returned"
    /\ UNCHANGED <<test_case, history, step_count, screenshot, source, proposal,
                   device, final_result>>
    /\ UNCHANGED library_vars

\* An iteration whose screenshot capture fails: break, nothing recorded.
ScreenshotError ==
    /\ pc = "loop"
    /\ loop_continues
    /\ step_count' = step_count + 1
    /\ screenshot' = "Error"
    /\ source' = "none"
    /\ proposal' = NoReply
    /\ device' = "none"
    /\ pc' = "break"
    /\ UNCHANGED <<test_case, history, final_result, results>>
    /\ UNCHANGED library_vars

\* Mutant: a done or failed action is executed and recorded like any other
\* and the loop goes on.
Act_without_break(plan, action, reply) ==
    /\ step_count' = step_count + 1
    /\ screenshot' = "ok"
    /\ source' = IF action = plan.action THEN plan.source ELSE "safeguard"
    /\ proposal' = IF plan.source = "model" THEN reply ELSE NoReply
    /\ \E dev \in DeviceOutcomesOf(action.action_type) :
          /\ history' = record_action(history, action,
                           IF execute(action.action_type,
                                      Get(action, "action_params", <<>>), dev)
                           THEN "success" ELSE "failed")
          /\ device' = dev
          /\ pc' = "loop"
    /\ UNCHANGED <<test_case, final_result, results>>
    /\ UNCHANGED library_vars

\* What is left of an iteration once the action is decided: a done or
\* failed action is recorded and breaks; any other is executed and recorded.
Act(plan, action, reply) ==
    /\ step_count' = step_count + 1
    /\ screenshot' = "ok"
    /\ source' = IF action = plan.action THEN plan.source ELSE "safeguard"
    /\ proposal' = IF plan.source = "model" THEN reply ELSE NoReply
    /\ IF action.action_type = "done"
       THEN /\ history' = record_action(history, action, "DONE")
            /\ device' = "none"
            /\ pc' = "break"
       ELSE IF action.action_type = "failed"
       THEN /\ history' = record_action(history, action, "FAILED")
            /\ device' = "none"
            /\ pc' = "break"
       ELSE \E dev \in DeviceOutcomesOf(action.action_type) :
               /\ history' = record_action(history, action,
                                IF execute(action.action_type,
                                           Get(action, "action_params", <<>>), dev)
                                THEN "success" ELSE "failed")
               /\ device' = dev
               /\ pc' = "loop"
    /\ UNCHANGED <<test_case, final_result, results>>
    /\ UNCHANGED library_vars

\* An iteration of the while loop whose screenshot capture succeeds.
Iterate ==
    /\ pc = "loop"
    /\ loop_continues
    /\ LET loop_result     == check_for_loop(history)
           required_action == get_required_next_action(history, test_case)
       IN  \E reply \in RepliesAt(loop_result, required_action) :
              LET plan   == plan_next_action(loop_result, required_action, reply)
                  action == safeguard(history, test_case, plan.action)
              IN  Act(plan, action, reply)

\* After the loop: SupervisorAgent.evaluate_test gives the run's verdict.
Evaluate ==
    /\ \/ pc = "break"
       \/ pc = "loop" /\ ~loop_continues
    /\ \E verdict \in {"PASS", "FAIL"} : final_result' = verdict
    /\ pc' = "returned"
    /\ UNCHANGED <<test_case, history, step_count, screenshot, source, proposal,
                   device, results>>
    /\ UNCHANGED library_vars

Next ==
    \/ RunTest
    \/ ScreenshotError
    \/ Iterate
    \/ Evaluate
    \/ NextTest
    \/ ReturnSuite

Spec == Init /\ [][Next]_vars

(***************************************************************************)
(* Vocabulary of the properties.  An iteration is one atomic step, so the  *)
(* history an iteration planned on is the history without the record it    *)
(* appended, and screenshot, source, proposal and device describe the      *)
(* iteration that ran last.                                                *)
(***************************************************************************)
Last(h) == h[Len(h)]

Before(h) == SubSeq(h, 1, Len(h) - 1)

FocusInput == {"tap_input", "tap_input_by_label"}

ExpectedTexts == {"InternVault", "Meeting Notes", "Daily Standup"}

\* The expected texts the description mentions, compared without case.
Mentioned(tc) ==
    {t \in ExpectedTexts : \E i \in DOMAIN tc : lower(tc[i]) = lower(t)}

SameActionAndParams(a, b) ==
    a.action_type = b.action_type /\ a.action_params = b.action_params

LastThreeIdentical(h) ==
    /\ Len(h) >= 3
    /\ SameActionAndParams(h[Len(h)], h[Len(h) - 1])
    /\ SameActionAndParams(h[Len(h)], h[Len(h) - 2])

LastFourAlternate(h) ==
    /\ Len(h) >= 4
    /\ h[Len(h) - 3].action_type = h[Len(h) - 1].action_type
    /\ h[Len(h) - 2].action_type = h[Len(h)].action_type
    /\ h[Len(h) - 1].action_type # h[Len(h)].action_type

RunOver == pc \in {"break", "returned", "suite_returned"}

\* The last iteration planned on a history ending in a successful
\* focus-input record (resp. type_text record) and appended a record.
AfterFocusSuccess ==
    /\ screenshot = "ok"
    /\ Len(history) >= 2
    /\ Last(Before(history)).action_type \in FocusInput
    /\ Last(Before(history)).result = "success"

AfterTypeSuccess ==
    /\ screenshot = "ok"
    /\ Len(history) >= 2
    /\ Last(Before(history)).action_type = "type_text"
    /\ Last(Before(history)).result = "success"

\* C1: whenever the three records an iteration plans on have the same
\* action type and parameters, the record it appends is the terminal failed
\* record with the loop reason, the run is over, and the external model was
\* not consulted; whatever the repeated kind.
C1_LoopDetected ==
    (Len(history) >= 4 /\ LastThreeIdentical(Before(history)))
        => /\ Last(history).action_type = "failed"
           /\ Last(history).action_params =
                 << <<"reason", "Stuck in loop. Need different approach.">> >>
           /\ Last(history).result = "FAILED"
           /\ RunOver
           /\ proposal = NoReply

\* C1 witness: three identical focus-input records, then the loop failure.
C1_Witness ==
    /\ Len(history) = 4
    /\ LastThreeIdentical(Before(history))
    /\ history[3].action_type = "tap_input_by_label"
    /\ Last(history).action_type = "failed"
    /\ source = "detector"

\* C2: whenever the four records an iteration plans on have kinds A,B,A,B
\* with A # B, the record it appends is the terminal failed record with the
\* oscillation reason and the run is over.
C2_OscillationDetected ==
    (Len(history) >= 5 /\ LastFourAlternate(Before(history)))
        => /\ Last(history).action_type = "failed"
           /\ Last(history).action_params =
                 << <<"reason",
                      "Stuck oscillating. One action is taking us backwards.">> >>
           /\ RunOver

\* C3: after a successful focus-input record, with a description that
\* mentions an expected text, the record appended next is type_text with an
\* expected text the description mentions.
C3_FocusThenForcedType ==
    (AfterFocusSuccess /\ Mentioned(test_case) # {})
        => /\ Last(history).action_type = "type_text"
           /\ \E t \in Mentioned(test_case) :
                 Last(history).action_params = << <<"text", t>> >>

\* C3 witness: focus by label succeeded under the InternVault description
\* and type_text InternVault was recorded next.
C3_Witness ==
    /\ AfterFocusSuccess
    /\ Last(Before(history)).action_type = "tap_input_by_label"
    /\ Mentioned(test_case) = {"InternVault"}
    /\ Last(history).action_type = "type_text"
    /\ Last(history).action_params = << <<"text", "InternVault">> >>

\* C4: after a successful focus-input record, with a description that
\* mentions no expected text, nothing is substituted: the action recorded
\* next is the externally proposed one, kind and parameters unchanged.
C4_NoKeyNoSubstitution ==
    (AfterFocusSuccess /\ Mentioned(test_case) = {})
        => /\ source \notin {"required", "safeguard"}
           /\ proposal.kind = "json"
                 => /\ Last(history).action_type = proposal.action.action_type
                    /\ Last(history).action_params = proposal.action.action_params

\* C4 witness: the proposal tap_element "Create a vault" went through after
\* a successful focus-input.
C4_Witness ==
    /\ AfterFocusSuccess
    /\ Mentioned(test_case) = {}
    /\ proposal.kind = "json"
    /\ Last(history).action_type = "tap_element"
    /\ Last(history).action_params = << <<"text", "Create a vault">> >>

\* C5 as claimed: after a successful type_text record the external model
\* is consulted and the action recorded next is the one it proposes.
C5_PressEnterOnlySuggested ==
    AfterTypeSuccess
        => /\ source = "model"
           /\ proposal.kind = "json"
           /\ Last(history).action_type = proposal.action.action_type

\* C5 as amended: after a successful type_text record the external model
\* is not consulted; the record appended next is the forced press_enter
\* with empty parameters, or the detector's terminal failure.
C5_PressEnterForced ==
    AfterTypeSuccess
        => /\ proposal = NoReply
           /\ \/ /\ source = "required"
                 /\ Last(history).action_type = "press_enter"
                 /\ Last(history).action_params = <<>>
              \/ /\ source = "detector"
                 /\ Last(history).action_type = "failed"
                 /\ RunOver

\* C5 witness: press_enter forced after a successful type_text.
C5_Witness ==
    /\ AfterTypeSuccess
    /\ source = "required"
    /\ Last(history).action_type = "press_enter"

Measure ==
    (MaxTests - Len(results)) * (max_steps + 5)
    + CASE pc = "idle"  -> max_steps + 3
        [] pc = "loop"  -> (max_steps - step_count) + 2
        [] pc = "break" -> 1
        [] OTHER        -> 0

\* C7: every run terminates within the budget: each step strictly lowers a
\* natural-valued measure, step_count never exceeds max_steps and the
\* history never holds more than max_steps records.
C7_TerminatesWithinBudget ==
    [][ /\ Measure' < Measure
        /\ Measure' >= 0
        /\ step_count' <= max_steps
        /\ Len(history') <= max_steps ]_vars

\* C7 witness: a run that used the whole budget and returned.
C7_Witness ==
    /\ pc = "returned"
    /\ step_count = max_steps
    /\ Len(history) = max_steps

C9_FailureRecordedAndRunProceeds ==
    (device \in {"nonzero", "timeout", "not_found"}
        \/ proposal.kind \in {"api_error", "rate_limited"})
        => /\ Last(history).result = "failed"
           /\ pc = "loop" \/ step_count = max_steps

\* C10: a run that used up the budget without a done/failed action is
\* reported FAIL, whatever the evaluator returns.
C10_ExhaustedRunFails ==
    (pc = "returned" /\ step_count = max_steps /\ Len(history) = max_steps
        /\ Last(history).action_type \notin {"done", "failed"})
        => final_result = "FAIL"

(***************************************************************************)
(* src/src/mobile_qa_agent/tools/metrics.py                                *)
(*                                                                         *)
(* Rewards are counted in hundredths (-0.05 is -5).  A rate is the pair    *)
(* num/den of the division that computes it.  A string that is searched is *)
(* the sequence of its words together with its length in characters;       *)
(* `a in b` is a search for the words of a as a run of words of b (no word *)
(* of the vocabulary below is a part of another one it is compared with).  *)
(***************************************************************************)
STEP_PENALTY == -5

SUBGOAL_REWARD == 20

COMPLETION_BONUS == 100

Ratio(n, d) == [num |-> n, den |-> d]

\* min(1.0, a / b) for b > 0
min_one(a, b) == IF a >= b THEN Ratio(1, 1) ELSE Ratio(a, b)

max_zero_unclamped(n) == n

\* max(0, n)
max_zero(n) == IF n > 0 THEN n ELSE 0

EmptyStr == [tokens |-> <<>>, len |-> 0]

strlen(w) ==
    CASE w \in {"x", "y"}                                        -> 1
      [] w \in {"up", "hi", "My", "my"}                          -> 2
      [] w \in {"new", "990", "128", "500"}                      -> 3
      [] w \in {"text", "note", "Note", "name"}                  -> 4
      [] w \in {"Notes", "Daily", "notes", "daily", "Vault", "vault"} -> 5
      [] w \in {"Create", "create", "filter", "[input", "field]"} -> 6
      [] w \in {"Meeting", "Standup", "meeting", "standup"}      -> 7
      [] w = "direction"                                         -> 9

RECURSIVE words_len(_)
words_len(ws) ==
    IF ws = <<>> THEN 0
    ELSE strlen(Head(ws)) + (IF Len(ws) > 1 THEN 1 ELSE 0) + words_len(Tail(ws))

\* A parameter is [key, value, quoted]: value is the words of a string
\* (quoted) or the digits of a number (not quoted).
Pair(key, value, quoted) == [key |-> key, value |-> value, quoted |-> quoted]

\* json.dumps of a dict, without the braces: "key": value, "key": value
RECURSIVE json_dumps_items(_)
json_dumps_items(ps) ==
    IF ps = <<>> THEN EmptyStr
    ELSE LET p    == Head(ps)
             rest == json_dumps_items(Tail(ps))
         IN  [tokens |-> <<p.key>> \o p.value \o rest.tokens,
              len    |-> strlen(p.key) + 4 + words_len(p.value)
                           + (IF p.quoted THEN 2 ELSE 0)
                           + (IF Tail(ps) # <<>> THEN 2 ELSE 0) + rest.len]

json_dumps(ps) ==
    LET items == json_dumps_items(ps)
    IN  [tokens |-> items.tokens, len |-> items.len + 2]

str_lower(str) ==
    [tokens |-> [i \in DOMAIN str.tokens |-> lower(str.tokens[i])],
     len    |-> str.len]

\* params_str = json.dumps(action_params).lower() if action_params else ""
params_str_of(action_params) ==
    IF action_params # <<>> THEN str_lower(json_dumps(action_params)) ELSE EmptyStr

\* needle in str
In(needle, str) ==
    \E i \in 0..(Len(str.tokens) - Len(needle)) :
        SubSeq(str.tokens, i + 1, i + Len(needle)) = needle

\* str(value).lower() of an expected parameter value
value_lower(value) == [i \in DOMAIN value |-> lower(value[i])]

\* s.replace("_", "")
remove_underscores(s) ==
    CASE s = "get_screen_elements" -> "getscreenelements"
      [] s = "tap_element_by_text" -> "tapelementbytext"
      [] s = "type_text_input"     -> "typetextinput"
      [] s = "tap_at_coordinates"  -> "tapatcoordinates"
      [] s = "swipe_screen"        -> "swipescreen"
      [] OTHER                     -> s

Tool(tool) == [tool |-> tool]

ToolWith(tool, params) == [tool |-> tool, params |-> params]

\* The workflows of tests 2 (Create Note) and 4 (Find Print to PDF).
IDEAL_WORKFLOWS ==
    2 :> [ideal_actions |->
            << Tool("get_screen_elements"),
               ToolWith("tap_element_by_text",
                        <<Pair("text", <<"Create", "new", "note">>, TRUE)>>),
               Tool("get_screen_elements"),
               ToolWith("type_text_input",
                        <<Pair("text", <<"Meeting", "Notes">>, TRUE)>>),
               Tool("get_screen_elements"),
               ToolWith("type_text_input",
                        <<Pair("text", <<"Daily", "Standup">>, TRUE)>>),
               Tool("get_screen_elements") >>,
          subgoals |-> <<"tap_create_note", "enter_note_title",
                         "enter_note_content", "save_note">>]
    @@
    4 :> [ideal_actions |->
            << Tool("get_screen_elements"),
               ToolWith("tap_at_coordinates",
                        <<Pair("x", <<"990">>, FALSE), Pair("y", <<"128">>, FALSE)>>),
               Tool("get_screen_elements"),
               ToolWith("swipe_screen",
                        <<Pair("direction", <<"up">>, TRUE)>>),
               Tool("get_screen_elements") >>,
          subgoals |-> <<"open_menu", "search_print_option",
                         "verify_print_exists">>]

\* _load_ideal_workflow: test_metrics.ideal_workflow and .all_subgoals, which
\* nothing assigns afterwards, as functions of the tracker's test number.
ideal_workflow(t) ==
    IF t.test_number \in DOMAIN IDEAL_WORKFLOWS
    THEN IDEAL_WORKFLOWS[t.test_number].ideal_actions ELSE <<>>

all_subgoals(t) ==
    IF t.test_number \in DOMAIN IDEAL_WORKFLOWS
    THEN IDEAL_WORKFLOWS[t.test_number].subgoals ELSE <<>>

\* MetricsTracker.__init__; TestMetrics defaults.
MetricsTracker(test_number) ==
        [ test_number           |-> test_number,
          current_step          |-> 0,
          achieved_subgoals     |-> {},
          matched_ideal_indices |-> {},
          final_result          |-> "",
          steps                 |-> <<>>,
          total_steps           |-> 0,
          successful_steps      |-> 0,
          failed_steps          |-> 0,
          error_count           |-> 0,
          total_reward          |-> 0,
          step_penalty_total    |-> 0,
          subgoal_reward_total  |-> 0,
          completion_bonus      |-> 0,
          plan_adherence_score  |-> Ratio(0, 1),
          action_efficiency     |-> Ratio(0, 1),
          extra_actions         |-> 0,
          missed_actions        |-> 0,
          subgoal_completion_rate |-> Ratio(0, 1) ]

\* The test of one reference step in _match_ideal_action.  The five
\* "variations" of tool_match repeat action_lower == ideal_tool.
tool_match(action_lower, ideal_tool) ==
    \/ action_lower = ideal_tool
    \/ remove_underscores(action_lower) = remove_underscores(ideal_tool)

\* Mutant: a get_screen_elements reference step matches an action of any
\* kind.
ideal_action_matches_any_kind(ideal_action, action_lower, params_str) ==
    LET ideal_tool   == lower(Get(ideal_action, "tool", ""))
        ideal_params == Get(ideal_action, "params", <<>>)
    IN  \/ ideal_tool = "get_screen_elements"
        \/ /\ tool_match(action_lower, ideal_tool)
           /\ IF ideal_params # <<>>
              THEN \E i \in DOMAIN ideal_params :
                      In(value_lower(ideal_params[i].value), params_str)
              ELSE TRUE

ideal_action_matches(ideal_action, action_lower, params_str) ==
    LET ideal_tool   == lower(Get(ideal_action, "tool", ""))
        ideal_params == Get(ideal_action, "params", <<>>)
    IN  /\ tool_match(action_lower, ideal_tool)
        /\ \/ ideal_tool = "get_screen_elements"
           \/ IF ideal_params # <<>>
              THEN \E i \in DOMAIN ideal_params :
                      In(value_lower(ideal_params[i].value), params_str)
              ELSE TRUE

\* _match_ideal_action from index idx on (indices count from 0): the index
\* it adds to matched_ideal_indices and returns with the reference step, or
\* None.
RECURSIVE match_from(_, _, _, _, _)
match_from(idx, workflow, matched, action_lower, params_str) ==
    IF idx >= Len(workflow) THEN None
    ELSE IF idx \in matched
    THEN match_from(idx + 1, workflow, matched, action_lower, params_str)
    ELSE IF ideal_action_matches(workflow[idx + 1], action_lower, params_str)
    THEN [idx |-> idx, action |-> workflow[idx + 1]]
    ELSE match_from(idx + 1, workflow, matched, action_lower, params_str)

match_ideal_action_any_index(t, action_type, action_params) ==
    match_from(0, ideal_workflow(t), {}, lower(action_type),
               params_str_of(action_params))

match_ideal_action(t, action_type, action_params) ==
    match_from(0, ideal_workflow(t), t.matched_ideal_indices, lower(action_type),
               params_str_of(action_params))

\* subgoal in subgoal_conditions
has_condition(subgoal) ==
    subgoal \in {"tap_create_note", "enter_note_title", "enter_note_content",
                 "save_note", "open_menu"}

\* subgoal_conditions[subgoal]()
subgoal_condition(subgoal, action_lower, params_str, screen_lower) ==
    CASE subgoal = "tap_create_note" ->
            In(<<"create", "new", "note">>, params_str)
      [] subgoal = "enter_note_title" ->
            /\ action_lower = "type_text_input"
            /\ \/ In(<<"meeting">>, params_str)
               \/ In(<<"project">>, params_str)
               \/ In(<<"todo">>, params_str)
      [] subgoal = "enter_note_content" ->
            /\ action_lower = "type_text_input"
            /\ \/ In(<<"daily">>, params_str)
               \/ In(<<"standup">>, params_str)
               \/ params_str.len > 20
      [] subgoal = "save_note" -> screen_lower = "note_editor_with_title"
      [] subgoal = "open_menu" ->
            /\ action_lower = "tap_at_coordinates"
            /\ In(<<"990">>, params_str)
      [] OTHER -> FALSE

Range(seq) == {seq[i] : i \in DOMAIN seq}

check_subgoals_again(t, action_type, action_params, screen_type) ==
    LET action_lower == lower(action_type)
        params_str   == params_str_of(action_params)
        screen_lower == lower(screen_type)
    IN  {subgoal \in Range(all_subgoals(t)) :
            /\ has_condition(subgoal)
            /\ subgoal_condition(subgoal, action_lower, params_str, screen_lower)}

\* _check_subgoals: the newly achieved set (all of it joins achieved_subgoals)
check_subgoals(t, action_type, action_params, screen_type) ==
    LET action_lower == lower(action_type)
        params_str   == params_str_of(action_params)
        screen_lower == lower(screen_type)
    IN  {subgoal \in Range(all_subgoals(t)) :
            /\ subgoal \notin t.achieved_subgoals
            /\ has_condition(subgoal)
            /\ subgoal_condition(subgoal, action_lower, params_str, screen_lower)}

\* start_step
start_step(t) == [t EXCEPT !.current_step = @ + 1]

\* The StepMetrics that record_step builds and returns (the timing, the
\* relevance score and the screen labels are left out).
StepMetricsOf(t, action_type, action_params, success, screen_type_after) ==
    LET newly_achieved == check_subgoals(t, action_type, action_params,
                                         screen_type_after)
        matched        == match_ideal_action(t, action_type, action_params)
        subgoal_reward == Cardinality(newly_achieved) * SUBGOAL_REWARD
    IN  [ step_number              |-> t.current_step,
          action_type              |-> action_type,
          action_params            |-> action_params,
          success                  |-> success,
          base_reward              |-> STEP_PENALTY,
          subgoal_reward           |-> subgoal_reward,
          total_step_reward        |-> STEP_PENALTY + subgoal_reward,
          matched                  |-> matched,
          action_matches_expected  |-> matched # None,
          newly_achieved_subgoals  |-> newly_achieved ]

\* Mutant: no step penalty is added for a failed step.
update_test_metrics_failed_free(t, m) ==
        [t EXCEPT
          !.error_count           = IF m.success THEN @ ELSE @ + 1,
          !.achieved_subgoals     = @ \cup m.newly_achieved_subgoals,
          !.matched_ideal_indices = IF m.matched = None THEN @
                                    ELSE @ \cup {m.matched.idx},
          !.steps                 = Append(@, [base_reward |-> m.base_reward]),
          !.total_steps           = @ + 1,
          !.successful_steps      = IF m.success THEN @ + 1 ELSE @,
          !.failed_steps          = IF m.success THEN @ ELSE @ + 1,
          !.step_penalty_total    = IF m.success THEN @ + m.base_reward ELSE @,
          !.subgoal_reward_total  = @ + m.subgoal_reward]

\* record_step once the StepMetrics m is built: the tracker after the call.
\* Of each StepMetrics the list steps keeps the base reward.
update_test_metrics(t, m) ==
        [t EXCEPT
          !.error_count           = IF m.success THEN @ ELSE @ + 1,
          !.achieved_subgoals     = @ \cup m.newly_achieved_subgoals,
          !.matched_ideal_indices = IF m.matched = None THEN @
                                    ELSE @ \cup {m.matched.idx},
          !.steps                 = Append(@, [base_reward |-> m.base_reward]),
          !.total_steps           = @ + 1,
          !.successful_steps      = IF m.success THEN @ + 1 ELSE @,
          !.failed_steps          = IF m.success THEN @ ELSE @ + 1,
          !.step_penalty_total    = @ + m.base_reward,
          !.subgoal_reward_total  = @ + m.subgoal_reward]

record_step(t, action_type, action_params, success, screen_type_after) ==
    update_test_metrics(t, StepMetricsOf(t, action_type, action_params, success,
                                         screen_type_after))

\* finalize: the tracker after the call.
finalize(t, result) ==
    LET completion_bonus == IF result = "PASS" THEN COMPLETION_BONUS
                            ELSE t.completion_bonus
        ideal_count      == Len(ideal_workflow(t))
        matched          == Cardinality(t.matched_ideal_indices)
    IN  [t EXCEPT
          !.final_result     = result,
          !.completion_bonus = completion_bonus,
          !.total_reward     = t.step_penalty_total + t.subgoal_reward_total
                                 + completion_bonus,
          !.subgoal_completion_rate =
              IF all_subgoals(t) # <<>>
              THEN Ratio(Cardinality(t.achieved_subgoals), Len(all_subgoals(t)))
              ELSE @,
          !.plan_adherence_score =
              IF ideal_count > 0 THEN Ratio(matched, ideal_count) ELSE @,
          !.action_efficiency =
              IF ideal_count > 0 /\ t.total_steps > 0
              THEN min_one(ideal_count, t.total_steps) ELSE @,
          !.extra_actions =
              IF ideal_count > 0 THEN max_zero(t.total_steps - ideal_count) ELSE @,
          !.missed_actions =
              IF ideal_count > 0 THEN ideal_count - matched ELSE @]

(***************************************************************************)
(* A tracker driven by a caller: any order of start_step, record_step and  *)
(* finalize, on a tracker of a test with or without a reference workflow.  *)
(***************************************************************************)
\* Most steps recorded on one tracker, and most steps started on it.
MaxTrackerSteps == 6

MaxStartedSteps == 1

\* A finalized tracker is recorded on only while it holds fewer steps.
MaxLateSteps == 2

\* Test 11 has no entry in IDEAL_WORKFLOWS.
TestNumbers == {2, 4, 11}

StepInput(action_type, action_params, success, screen_type_after) ==
    [action_type |-> action_type, action_params |-> action_params,
     success |-> success, screen_type_after |-> screen_type_after]

StepInputs ==
    { StepInput("get_screen_elements", <<>>, TRUE, ""),
      StepInput("get_screen_elements",
                <<Pair("filter", <<"text">>, TRUE)>>, TRUE, ""),
      StepInput("GetScreenElements", <<>>, TRUE, ""),
      StepInput("tap_element_by_text",
                <<Pair("text", <<"Create", "new", "note">>, TRUE)>>, TRUE,
                "note_editor"),
      StepInput("TapElementByText",
                <<Pair("text", <<"Create", "new", "note">>, TRUE)>>, TRUE,
                "note_editor"),
      StepInput("type_text_input",
                <<Pair("text", <<"Meeting", "Notes">>, TRUE)>>, TRUE,
                "note_editor_with_title"),
      StepInput("type_text_input", <<Pair("text", <<"hi">>, TRUE)>>, FALSE, ""),
      StepInput("tap_at_coordinates",
                <<Pair("x", <<"990">>, FALSE), Pair("y", <<"500">>, FALSE)>>,
                TRUE, ""),
      StepInput("swipe_screen", <<Pair("direction", <<"up">>, TRUE)>>, FALSE, "") }

\* The subgoals of the tracker's test whose predicate holds of a step.
Firing(t, in) ==
    {subgoal \in Range(all_subgoals(t)) :
        /\ has_condition(subgoal)
        /\ subgoal_condition(subgoal, lower(in.action_type),
                             params_str_of(in.action_params),
                             lower(in.screen_type_after))}

\* What record_step returns, as far as the properties read it.
Returned(m) ==
    [action_type             |-> m.action_type,
     action_params           |-> m.action_params,
     newly_achieved_subgoals |-> m.newly_achieved_subgoals,
     matched                 |-> IF m.matched = None THEN None
                                 ELSE [idx |-> m.matched.idx]]

InitMetrics ==
    /\ test_case = <<>>
    /\ history = <<>>
    /\ step_count = 0
    /\ pc = "idle"
    /\ screenshot = "none"
    /\ source = "none"
    /\ proposal = NoReply
    /\ device = "none"
    /\ final_result = "none"
    /\ results = <<>>
    /\ \E test_number \in TestNumbers : tracker = MetricsTracker(test_number)
    /\ call = [fn |-> "__init__"]
    /\ fired = {}

StartStep ==
    /\ tracker.current_step < MaxStartedSteps
    /\ tracker' = start_step(tracker)
    /\ call' = [fn |-> "start_step"]
    /\ UNCHANGED fired
    /\ UNCHANGED agent_vars

RecordStep ==
    /\ tracker.total_steps < MaxTrackerSteps
    /\ tracker.final_result = "" \/ tracker.total_steps < MaxLateSteps
    /\ \E in \in StepInputs :
          LET m == StepMetricsOf(tracker, in.action_type, in.action_params,
                                 in.success, in.screen_type_after)
          IN  /\ tracker' = update_test_metrics(tracker, m)
              /\ call' = [fn     |-> "record_step",
                          firing |-> Firing(tracker, in),
                          result |-> Returned(m)]
              /\ fired' = fired \cup Firing(tracker, in)
    /\ UNCHANGED agent_vars

Finalize ==
    /\ \E result \in {"PASS", "FAIL"} :
          /\ tracker' = finalize(tracker, result)
          /\ call' = [fn |-> "finalize", args |-> result]
    /\ UNCHANGED fired
    /\ UNCHANGED agent_vars

NextMetrics ==
    \/ StartStep
    \/ RecordStep
    \/ Finalize

SpecMetrics == InitMetrics /\ [][NextMetrics]_vars

(***************************************************************************)
(* Properties of the tracker (under SpecMetrics)                           *)
(***************************************************************************)
RewardSum(t) == t.step_penalty_total + t.subgoal_reward_total + t.completion_bonus

IdealCount == Len(ideal_workflow(tracker))

Matched == Cardinality(tracker.matched_ideal_indices)

\* C11: after every finalize(result) the completion bonus is 1.0 for PASS
\* and 0 otherwise, and the total reward is the sum of the step penalties,
\* the subgoal rewards and the completion bonus, whatever calls came before.
C11_FinalizeReward ==
    call.fn = "finalize"
        => /\ tracker.completion_bonus =
                 (IF call.args = "PASS" THEN COMPLETION_BONUS ELSE 0)
           /\ tracker.total_reward = RewardSum(tracker)

\* C12: a subgoal is reported as newly achieved by exactly the first
\* recorded step of which its predicate holds, it never leaves the achieved
\* set, and the subgoal reward total is 0.2 times the size of that set.
C12_SubgoalOnceAndPermanent ==
    [][ /\ call'.fn = "record_step"
            => call'.result.newly_achieved_subgoals = call'.firing \ fired
        /\ tracker'.achieved_subgoals = fired'
        /\ tracker.achieved_subgoals \subseteq tracker'.achieved_subgoals
        /\ tracker'.subgoal_reward_total
              = SUBGOAL_REWARD * Cardinality(tracker'.achieved_subgoals) ]_vars

\* C12 witness: a step of which the predicate of an achieved subgoal holds
\* again, and which reports nothing new.
C12_Witness ==
    /\ call.fn = "record_step"
    /\ call.firing # {}
    /\ call.result.newly_achieved_subgoals = {}
    /\ tracker.subgoal_reward_total = SUBGOAL_REWARD

\* The reference steps an action may claim, read off the tracker alone:
\* unmatched, the step's tool and the action kind the same name (SameName),
\* and no value expected or one of the expected values in the parameters.
Claimable(t, in, SameName(_, _)) ==
    {idx \in 0..(Len(ideal_workflow(t)) - 1) :
        LET ideal_action == ideal_workflow(t)[idx + 1]
            ideal_params == Get(ideal_action, "params", <<>>)
        IN  /\ idx \notin t.matched_ideal_indices
            /\ SameName(in.action_type, ideal_action.tool)
            /\ \/ ideal_params = <<>>
               \/ \E i \in DOMAIN ideal_params :
                     In(value_lower(ideal_params[i].value),
                        params_str_of(in.action_params))}

Lowest(indices) ==
    IF indices = {} THEN {}
    ELSE {CHOOSE idx \in indices : \A other \in indices : idx <= other}

EqualNames(kind, tool) == kind = tool

EqualUpToCaseAndUnderscores(kind, tool) ==
    remove_underscores(lower(kind)) = remove_underscores(lower(tool))

\* The steps by which a call of record_step(in) leads from this state to
\* the next.
IsRecordStep(in) ==
    /\ call'.fn = "record_step"
    /\ tracker' = record_step(tracker, in.action_type, in.action_params,
                              in.success, in.screen_type_after)

MatchedSetOnlyGrows ==
    /\ tracker.matched_ideal_indices \subseteq tracker'.matched_ideal_indices
    /\ call'.fn # "record_step"
          => tracker'.matched_ideal_indices = tracker.matched_ideal_indices
    /\ Cardinality(tracker'.matched_ideal_indices) <= tracker'.total_steps
    /\ Cardinality(tracker'.matched_ideal_indices) <= Len(ideal_workflow(tracker'))

\* C13 as stated: a record_step claims the lowest-index unmatched reference
\* step whose tool equals the action kind and whose expected value occurs in
\* the serialized parameters, and nothing else; the matched set only grows
\* and is no larger than the recorded steps or the workflow.
C13_ClaimsLowestEqualTool ==
    [][ /\ MatchedSetOnlyGrows
        /\ \A in \in StepInputs :
              IsRecordStep(in)
                 => tracker'.matched_ideal_indices \ tracker.matched_ideal_indices
                       = Lowest(Claimable(tracker, in, EqualNames)) ]_vars

\* C13 amended: the same with the tool and the action kind compared without
\* regard to case and underscores, and one of the expected values occurring.
C13_ClaimsLowestMatchingTool ==
    [][ /\ MatchedSetOnlyGrows
        /\ \A in \in StepInputs :
              IsRecordStep(in)
                 => tracker'.matched_ideal_indices \ tracker.matched_ideal_indices
                       = Lowest(Claimable(tracker, in,
                                          EqualUpToCaseAndUnderscores)) ]_vars

\* C13 witness: a step claimed reference step 2 over the unmatched step 1,
\* whose tool is another, after step 0 was claimed.
C13_Witness ==
    /\ call.fn = "record_step"
    /\ call.result.matched = [idx |-> 2]
    /\ tracker.matched_ideal_indices = {0, 2}

\* A rate r is the number n / d.
RateIs(r, n, d) == r.den > 0 /\ r.num * d = n * r.den

RateInUnitInterval(r) == r.den > 0 /\ 0 <= r.num /\ r.num <= r.den

\* C14 as stated: after finalize on a tracker with a reference workflow,
\* adherence = matched / ideal, efficiency = min(1, ideal / total_steps),
\* extra = max(0, total_steps - ideal), missed = ideal - matched, all within
\* their ranges; for every step sequence, the empty one included, where
\* ideal / total_steps exceeds every number and the minimum is 1.
C14_RatesAfterFinalize ==
    (call.fn = "finalize" /\ IdealCount > 0)
        => /\ RateIs(tracker.plan_adherence_score, Matched, IdealCount)
           /\ IF IdealCount >= tracker.total_steps
              THEN RateIs(tracker.action_efficiency, 1, 1)
              ELSE RateIs(tracker.action_efficiency, IdealCount, tracker.total_steps)
           /\ tracker.extra_actions
                 = (IF tracker.total_steps > IdealCount
                    THEN tracker.total_steps - IdealCount ELSE 0)
           /\ tracker.missed_actions = IdealCount - Matched
           /\ RateInUnitInterval(tracker.plan_adherence_score)
           /\ RateInUnitInterval(tracker.action_efficiency)
           /\ tracker.extra_actions >= 0
           /\ tracker.missed_actions >= 0

\* C14 amended: the same, with the efficiency 0 when no step was recorded.
C14_RatesAfterFinalizeWithSteps ==
    (call.fn = "finalize" /\ IdealCount > 0)
        => /\ RateIs(tracker.plan_adherence_score, Matched, IdealCount)
           /\ IF tracker.total_steps = 0
              THEN RateIs(tracker.action_efficiency, 0, 1)
              ELSE IF IdealCount >= tracker.total_steps
              THEN RateIs(tracker.action_efficiency, 1, 1)
              ELSE RateIs(tracker.action_efficiency, IdealCount, tracker.total_steps)
           /\ tracker.extra_actions
                 = (IF tracker.total_steps > IdealCount
                    THEN tracker.total_steps - IdealCount ELSE 0)
           /\ tracker.missed_actions = IdealCount - Matched
           /\ RateInUnitInterval(tracker.plan_adherence_score)
           /\ RateInUnitInterval(tracker.action_efficiency)
           /\ tracker.extra_actions >= 0
           /\ tracker.missed_actions >= 0

\* C14 witness: finalize on a run longer than its workflow that left
\* reference steps unmatched.
C14_Witness ==
    /\ call.fn = "finalize"
    /\ tracker.extra_actions > 0
    /\ tracker.missed_actions > 0
    /\ tracker.action_efficiency.num < tracker.action_efficiency.den

\* C15: once finalize was called, no later record_step or finalize changes
\* the total reward, the completion bonus, the step and subgoal totals, the
\* step list or the rates, and the total reward stays the sum of the stored
\* components.
C15_FrozenAfterFinalize ==
    [][ tracker.final_result # ""
          => /\ tracker'.total_reward = tracker.total_reward
             /\ tracker'.completion_bonus = tracker.completion_bonus
             /\ tracker'.step_penalty_total = tracker.step_penalty_total
             /\ tracker'.subgoal_reward_total = tracker.subgoal_reward_total
             /\ tracker'.steps = tracker.steps
             /\ tracker'.plan_adherence_score = tracker.plan_adherence_score
             /\ tracker'.action_efficiency = tracker.action_efficiency
             /\ tracker'.subgoal_completion_rate = tracker.subgoal_completion_rate
             /\ tracker'.total_reward = RewardSum(tracker') ]_vars

(***************************************************************************)
(* calculate_reward_from_episode (metrics.py), applied to an episode dict  *)
(***************************************************************************)
\* The action kinds that count as a subgoal.
SUBGOAL_ACTIONS ==
    {"tap_element", "tap_on_element", "type_text", "type_in_field",
     "clear_and_type", "tap_at_coordinates", "tap_element_by_text",
     "type_text_input"}

\* min(subgoal_count, 5)
capped_subgoal_count(subgoal_count) ==
    IF subgoal_count < 5 THEN subgoal_count ELSE 5

calculate_reward_from_episode(episode_data) ==
    LET steps            == Get(episode_data, "steps", <<>>)
        final_result_    == Get(episode_data, "final_result", "FAIL")
        step_penalty     == Len(steps) * STEP_PENALTY
        subgoal_count    == Cardinality({i \in DOMAIN steps :
                                Get(steps[i], "action_type", "") \in SUBGOAL_ACTIONS})
        subgoal_reward   == capped_subgoal_count(subgoal_count) * SUBGOAL_REWARD
        completion_bonus == IF final_result_ = "PASS" THEN COMPLETION_BONUS ELSE 0
    IN  [ step_count       |-> Len(steps),
          step_penalty     |-> step_penalty,
          subgoal_reward   |-> subgoal_reward,
          completion_bonus |-> completion_bonus,
          total_reward     |-> step_penalty + subgoal_reward + completion_bonus,
          final_result     |-> final_result_ ]

\* Most steps of an episode.
MaxEpisodeSteps == 10

\* A kind that counts as a subgoal and one that does not.
EpisodeSteps == {[action_type |-> "tap_element"], [action_type |-> "wait"]}

Episodes ==
    LET step_lists == UNION {[1..n -> EpisodeSteps] : n \in 0..MaxEpisodeSteps}
    IN  {[steps |-> steps, final_result |-> result] :
             steps \in step_lists, result \in {"PASS", "FAIL"}}
        \cup {[steps |-> steps] : steps \in step_lists}

InitEpisode ==
    /\ test_case = <<>>
    /\ history = <<>>
    /\ step_count = 0
    /\ pc = "idle"
    /\ screenshot = "none"
    /\ source = "none"
    /\ proposal = NoReply
    /\ device = "none"
    /\ final_result = "none"
    /\ results = <<>>
    /\ tracker = None
    /\ fired = {}
    /\ \E episode_data \in Episodes : call = [fn |-> "input", args |-> episode_data]

CalculateReward ==
    /\ call.fn = "input"
    /\ call' = [fn     |-> "calculate_reward_from_episode",
                args   |-> call.args,
                result |-> calculate_reward_from_episode(call.args)]
    /\ UNCHANGED <<tracker, fired>>
    /\ UNCHANGED agent_vars

NextEpisode == CalculateReward

SpecEpisode == InitEpisode /\ [][NextEpisode]_vars

\* C16: for an episode whose final_result is FAIL and that has a step,
\* calculate_reward_from_episode returns completion bonus 0 and a total
\* reward below zero.
C16_FailedEpisodeNegative ==
    (/\ call.fn = "calculate_reward_from_episode"
     /\ Get(call.args, "final_result", "") = "FAIL"
     /\ Len(call.args.steps) >= 1)
        => /\ call.result.completion_bonus = 0
           /\ call.result.total_reward < 0

(***************************************************************************)
(* The hierarchy parser and the element resolver: src/adb_tools.py, which  *)
(* src/agents.py uses, and the variant of the agent package,               *)
(* src/src/mobile_qa_agent/tools/adb_tools.py, whose definitions carry the *)
(* prefix tools_.                                                          *)
(*                                                                         *)
(* A markup is what precedes the document (leading), whether the document  *)
(* opens with an <?xml declaration, whether it is well formed, and its     *)
(* node tags in document order.  A node is a dict of its attributes; text  *)
(* and content-desc are sequences of words; bounds is a string of the form *)
(* [x1,y1][x2,y2] (form "box") or any other string (form "other").  The    *)
(* focused flag, which no resolver reads, is left out.                     *)
(***************************************************************************)
Box(x1, y1, x2, y2) == [form |-> "box", x1 |-> x1, y1 |-> y1, x2 |-> x2, y2 |-> y2]

OtherBounds == [form |-> "other"]

\* parse_bounds: (x1, y1, x2, y2), or (0, 0, 0, 0) if the pattern fails
parse_bounds(bounds_str) ==
    IF bounds_str.form = "box"
    THEN <<bounds_str.x1, bounds_str.y1, bounds_str.x2, bounds_str.y2>>
    ELSE <<0, 0, 0, 0>>

\* traverse, for one node: the elements it appends
traverse_node(node) ==
    LET text         == Get(node, "text", <<>>)
        content_desc == Get(node, "content-desc", <<>>)
        clickable    == Get(node, "clickable", "false") = "true"
        focusable    == Get(node, "focusable", "false") = "true"
        bounds       == parse_bounds(Get(node, "bounds", Box(0, 0, 0, 0)))
    IN  IF /\ text # <<>> \/ content_desc # <<>> \/ clickable \/ focusable
           /\ bounds[3] - bounds[1] > 10
           /\ bounds[4] - bounds[2] > 10
        THEN << [ text         |-> text,
                  content_desc |-> content_desc,
                  resource_id  |-> Get(node, "resource-id", ""),
                  class        |-> Get(node, "class", ""),
                  clickable    |-> clickable,
                  focusable    |-> focusable,
                  bounds       |-> bounds,
                  center_x     |-> (bounds[1] + bounds[3]) \div 2,
                  center_y     |-> (bounds[2] + bounds[4]) \div 2,
                  width        |-> bounds[3] - bounds[1],
                  height       |-> bounds[4] - bounds[2] ] >>
        ELSE <<>>

RECURSIVE traverse(_)
traverse(nodes) ==
    IF nodes = <<>> THEN <<>>
    ELSE traverse_node(Head(nodes)) \o traverse(Tail(nodes))

\* The clean-up before ET.fromstring: what is left of the leading text.
cleaned_leading(xml) ==
    IF xml.leading # "" /\ xml.declaration THEN "" ELSE xml.leading

\* ET.fromstring: the nodes of the document, or ParseError
fromstring(xml) ==
    IF xml.well_formed /\ cleaned_leading(xml) = ""
    THEN [root |-> xml.nodes] ELSE [raised |-> "ParseError"]

\* parse_ui_elements without the except clauses
parse_ui_elements_uncaught(xml_content) ==
    LET root == fromstring(xml_content)
    IN  IF "raised" \in DOMAIN root
        THEN [raised |-> root.raised, elements |-> <<>>]
        ELSE [raised |-> "", elements |-> traverse(root.root)]

\* parse_ui_elements of src/adb_tools.py: the list returned, and the
\* exception that leaves the function ("" for none).
parse_ui_elements(xml_content) ==
    LET root == fromstring(xml_content)
    IN  IF "raised" \in DOMAIN root
        THEN [raised |-> "", elements |-> <<>>]
        ELSE [raised |-> "", elements |-> traverse(root.root)]

\* parse_ui_elements of the agent package: one element per node tag that
\* the pattern <node[^>]+> finds, whatever surrounds it.
tools_element(node) ==
    LET bounds_str == Get(node, "bounds", OtherBounds)
        matched    == bounds_str.form = "box"
        bounds     == parse_bounds(bounds_str)
    IN  [ text         |-> Get(node, "text", <<>>),
          content_desc |-> Get(node, "content-desc", <<>>),
          class        |-> Get(node, "class", ""),
          clickable    |-> Get(node, "clickable", "false") = "true",
          focusable    |-> Get(node, "focusable", "false") = "true",
          center_x     |-> IF matched THEN (bounds[1] + bounds[3]) \div 2 ELSE 0,
          center_y     |-> IF matched THEN (bounds[2] + bounds[4]) \div 2 ELSE 0,
          width        |-> IF matched THEN bounds[3] - bounds[1] ELSE 0,
          height       |-> IF matched THEN bounds[4] - bounds[2] ELSE 0,
          bounds       |-> IF matched THEN bounds ELSE None,
          resource_id  |-> Get(node, "resource-id", "") ]

tools_parse_ui_elements(xml) ==
    [raised   |-> "",
     elements |-> [i \in DOMAIN xml.nodes |-> tools_element(xml.nodes[i])]]

\* needle in class_name, for the needles the resolvers look for
class_contains(class_name, needle) ==
    CASE needle = "button"   -> class_name = "android.widget.button"
      [] needle = "Button"   -> class_name = "android.widget.Button"
      [] needle = "edittext" -> class_name = "android.widget.edittext"
      [] needle = "EditText" -> class_name = "android.widget.EditText"

\* 'edit' in resource_id.lower() or 'input' in resource_id.lower()
is_edit_resource(resource_id) == resource_id = "md.obsidian:id/input_name"

\* xml.startswith("Error")
startswith_Error(xml) == xml.leading = "Error"

Words(words) == [tokens |-> words, len |-> words_len(words)]

\* The first element of a list, or None.
First(passing) == IF passing = <<>> THEN None ELSE passing[1]

prefer_among_clickable_first(matches, prefer_clickable) ==
    LET button    == First(SelectSeq(matches, LAMBDA e : class_contains(lower(e.class), "button")))
        clickable == First(SelectSeq(matches, LAMBDA e : e.clickable))
    IN  IF prefer_clickable /\ clickable # None THEN clickable
        ELSE IF prefer_clickable /\ button # None THEN button
        ELSE matches[1]

\* The resolution among several matches, the same in both variants.
prefer_among(matches, prefer_clickable) ==
    LET button    == First(SelectSeq(matches, LAMBDA e : class_contains(lower(e.class), "button")))
        clickable == First(SelectSeq(matches, LAMBDA e : e.clickable))
        bottom    == First(SelectSeq(matches, LAMBDA e : e.center_y > 1200))
    IN  IF ~prefer_clickable THEN matches[1]
        ELSE IF button # None THEN button
        ELSE IF clickable # None THEN clickable
        ELSE IF bottom # None THEN bottom
        ELSE matches[1]

\* the test of one element in find_element_by_text of src/adb_tools.py
text_matches(elem, text, partial) ==
    LET text_lower == value_lower(text)
        elem_text  == value_lower(elem.text \o elem.content_desc)
    IN  IF partial THEN In(text_lower, Words(elem_text))
        ELSE text_lower = elem_text

\* find_element_by_text of src/adb_tools.py on the hierarchy xml
find_element_by_text(xml, text, partial, prefer_clickable) ==
    IF startswith_Error(xml) THEN None
    ELSE LET elements == parse_ui_elements(xml).elements
             matches  == SelectSeq(elements,
                                   LAMBDA e : text_matches(e, text, partial))
         IN  IF matches = <<>> THEN None
             ELSE IF Len(matches) = 1 THEN matches[1]
             ELSE prefer_among(matches, prefer_clickable)

\* the test of one element in find_element_by_text of the agent package
tools_text_matches(elem, text) ==
    LET text_lower == value_lower(text)
    IN  \/ In(text_lower, Words(value_lower(elem.text)))
        \/ In(text_lower, Words(value_lower(elem.content_desc)))
        \/ elem.text # <<>> /\ text_lower = value_lower(elem.text)

\* find_element_by_text of the agent package
tools_find_element_by_text(xml, text, prefer_clickable) ==
    IF startswith_Error(xml) THEN None
    ELSE LET elements == tools_parse_ui_elements(xml).elements
             matches  == SelectSeq(elements, LAMBDA e : tools_text_matches(e, text))
         IN  IF matches = <<>> THEN None
             ELSE IF Len(matches) = 1 THEN matches[1]
             ELSE prefer_among(matches, prefer_clickable)

PLACEHOLDERS ==
    {<<"My", "vault">>, <<"Write", "here">>, <<"Enter", "text">>,
     <<"Type", "here">>}

\* the first pass of find_input_field: an EditText, or an edit resource id
is_edit_text(elem) ==
    \/ class_contains(elem.class, "EditText")
    \/ class_contains(lower(elem.class), "edittext")
    \/ is_edit_resource(elem.resource_id)

\* the second pass: elements that look like an input field
looks_like_input(elem) ==
    /\ elem.text \in PLACEHOLDERS \cup {<<>>}
    /\ elem.focusable /\ elem.clickable
    /\ elem.height > 40 /\ elem.width > 200

RECURSIVE add_lookalikes(_, _)
add_lookalikes(elements, input_fields) ==
    IF elements = <<>> THEN input_fields
    ELSE LET elem == Head(elements)
         IN  add_lookalikes(Tail(elements),
                 IF elem \in Range(input_fields) THEN input_fields
                 ELSE IF looks_like_input(elem) THEN Append(input_fields, elem)
                 ELSE input_fields)

\* the first fallback: focusable, no Button, a text that is no known label
is_focusable_text(elem) ==
    /\ elem.focusable
    /\ ~class_contains(elem.class, "Button")
    /\ elem.text # <<>>
    /\ elem.text \notin {<<"Vault", "name">>, <<"Vault", "location">>}

\* the second fallback: the first element in the window below the label
below_label(elements, label) ==
    LET found == First(SelectSeq(elements,
                       LAMBDA e : /\ e.center_y > label.center_y
                                  /\ e.center_y < label.center_y + 200
                                  /\ e.clickable \/ e.text # <<>>))
    IN  IF found = None THEN <<>> ELSE <<found>>

nearest_below_in_document_order(input_fields, label_y) ==
    First(SelectSeq(input_fields, LAMBDA f : f.center_y > label_y))

\* The first of the fields below label_y that no other is nearer to it,
\* or None.
nearest_below(input_fields, label_y) ==
    First(SelectSeq(input_fields,
          LAMBDA f : /\ f.center_y > label_y
                     /\ \A i \in DOMAIN input_fields :
                           input_fields[i].center_y > label_y
                              => f.center_y - label_y
                                    <= input_fields[i].center_y - label_y))

\* the candidates of find_input_field of src/adb_tools.py
input_fields_of(xml, label_text) ==
    LET elements == parse_ui_elements(xml).elements
        staged   == add_lookalikes(elements, SelectSeq(elements, is_edit_text))
        focusing == IF staged # <<>> THEN staged
                    ELSE SelectSeq(elements, is_focusable_text)
    IN  IF focusing # <<>> \/ label_text = None THEN focusing
        ELSE LET label == find_element_by_text(xml, label_text, TRUE, TRUE)
             IN  IF label = None THEN <<>> ELSE below_label(elements, label)

\* find_input_field of src/adb_tools.py on the hierarchy xml
find_input_field(xml, label_text) ==
    IF startswith_Error(xml) THEN None
    ELSE LET input_fields == input_fields_of(xml, label_text)
             label == IF label_text = None THEN None
                      ELSE find_element_by_text(xml, label_text, TRUE, TRUE)
             best  == IF label = None THEN None
                      ELSE nearest_below(input_fields, label.center_y)
         IN  IF input_fields = <<>> THEN None
             ELSE IF best # None THEN best
             ELSE input_fields[1]

\* the candidates of find_input_field of the agent package
tools_is_input(elem) ==
    \/ class_contains(elem.class, "EditText")
    \/ is_edit_resource(elem.resource_id)
    \/ elem.text \in PLACEHOLDERS
    \/ elem.text # <<>> /\ elem.text[1] = "Untitled"

tools_input_fields_of(xml) ==
    SelectSeq(tools_parse_ui_elements(xml).elements, tools_is_input)

\* find_input_field of the agent package
tools_find_input_field(xml, label_text) ==
    IF startswith_Error(xml) THEN None
    ELSE LET input_fields == tools_input_fields_of(xml)
             label_elem == IF label_text = None THEN None
                           ELSE tools_find_element_by_text(xml, label_text, TRUE)
             best  == IF label_elem = None THEN None
                      ELSE nearest_below(input_fields, label_elem.center_y)
         IN  IF input_fields = <<>> THEN None
             ELSE IF best # None THEN best
             ELSE input_fields[1]

(***************************************************************************)
(* The screens the parser and the resolvers are run on: what               *)
(* get_ui_hierarchy returned, a sequence of distinct nodes of a catalogue  *)
(* inside a document of one of the forms below.                            *)
(***************************************************************************)
\* Most nodes of a well-formed document.
MaxNodes == 4

Node(text, content_desc, class, clickable, focusable, bounds) ==
    (IF text = <<>> THEN <<>> ELSE "text" :> text)
    @@ (IF content_desc = <<>> THEN <<>> ELSE "content-desc" :> content_desc)
    @@ ("class" :> class)
    @@ (IF clickable THEN "clickable" :> "true" ELSE <<>>)
    @@ (IF focusable THEN "focusable" :> "true" ELSE "focusable" :> "false")
    @@ ("bounds" :> bounds)

NodeCatalogue ==
    { \* a label
      Node(<<"Vault", "name">>, <<>>, "android.widget.TextView", FALSE, FALSE,
           Box(100, 300, 900, 400)),
      \* a button of the same text above it
      Node(<<"Vault", "name">>, <<>>, "android.widget.Button", FALSE, FALSE,
           Box(100, 150, 900, 250)),
      \* a clickable view described by the same text, low on the screen
      Node(<<>>, <<"Vault", "name">>, "android.view.View", TRUE, FALSE,
           Box(100, 1300, 900, 1400)),
      \* two input fields, one empty and one with a placeholder
      Node(<<>>, <<>>, "android.widget.EditText", TRUE, TRUE,
           Box(100, 500, 900, 600)),
      Node(<<"My", "vault">>, <<>>, "android.widget.EditText", TRUE, TRUE,
           Box(100, 800, 900, 900)),
      \* a button whose bounds string is malformed
      Node(<<"Vault", "name">>, <<>>, "android.widget.Button", TRUE, FALSE,
           OtherBounds),
      \* a clickable view of 10 by 10
      Node(<<>>, <<>>, "android.view.View", TRUE, FALSE, Box(0, 0, 10, 10)),
      \* a container without text, description or flags
      Node(<<>>, <<>>, "android.view.View", FALSE, FALSE,
           Box(0, 0, 1080, 2400)) }

\* The sequences of at most n distinct nodes.
NodeLists(n) ==
    UNION {{nodes \in [1..k -> NodeCatalogue] :
               \A i, j \in 1..k : i # j => nodes[i] # nodes[j]} : k \in 0..n}

\* Most rows of a list screen.
MaxRows == 22

\* A list screen: n rows one below the other, which the document lists from
\* the top down, from the bottom up, or in another order.
Row(k) ==
    Node(<<"Create", "new", "note">>, <<>>, "android.widget.TextView", TRUE,
         FALSE, Box(100, 100 * k, 900, 100 * k + 80))

RowLists ==
    {[i \in 1..n |-> Row(CASE order = "down"  -> i
                           [] order = "up"    -> n + 1 - i
                           [] order = "mixed" -> (7 * i) % 23)] :
        n \in 14..MaxRows, order \in {"down", "up", "mixed"}}

Document(leading, declaration, well_formed, nodes) ==
    [leading |-> leading, declaration |-> declaration,
     well_formed |-> well_formed, nodes |-> nodes]

Markups ==
    \* a well-formed document, with and without the XML declaration
    {Document("", declaration, TRUE, nodes) :
        declaration \in BOOLEAN, nodes \in NodeLists(MaxNodes)}
    \* text before the document, a truncated document
    \cup {Document(leading, declaration, well_formed, nodes) :
             leading \in {"", "noise"}, declaration \in BOOLEAN,
             well_formed \in BOOLEAN, nodes \in NodeLists(1)}
    \* list screens
    \cup {Document("", TRUE, TRUE, nodes) : nodes \in RowLists}
    \* the error string of get_ui_hierarchy
    \cup {Document("Error", FALSE, FALSE, <<>>)}

Queries == {<<"Vault", "name">>, <<"vault">>, <<"My", "vault">>}

Labels == {None, <<"Vault", "name">>}

InitScreen ==
    /\ test_case = <<>>
    /\ history = <<>>
    /\ step_count = 0
    /\ pc = "idle"
    /\ screenshot = "none"
    /\ source = "none"
    /\ proposal = NoReply
    /\ device = "none"
    /\ final_result = "none"
    /\ results = <<>>
    /\ tracker = None
    /\ fired = {}
    /\ \E xml \in Markups : call = [fn |-> "input", xml |-> xml]

ParseUiElements ==
    /\ call.fn = "input"
    /\ call' = [fn     |-> "parse_ui_elements",
                xml    |-> call.xml,
                result |-> parse_ui_elements(call.xml)]
    /\ UNCHANGED <<tracker, fired>>
    /\ UNCHANGED agent_vars

ToolsParseUiElements ==
    /\ call.fn = "input"
    /\ call' = [fn     |-> "tools.parse_ui_elements",
                xml    |-> call.xml,
                result |-> tools_parse_ui_elements(call.xml)]
    /\ UNCHANGED <<tracker, fired>>
    /\ UNCHANGED agent_vars

FindElementByText ==
    /\ call.fn = "input"
    /\ \E text \in Queries, partial \in BOOLEAN, prefer_clickable \in BOOLEAN :
          call' = [fn     |-> "find_element_by_text",
                   xml    |-> call.xml,
                   text   |-> text,
                   partial |-> partial,
                   prefer_clickable |-> prefer_clickable,
                   result |-> find_element_by_text(call.xml, text, partial,
                                                   prefer_clickable)]
    /\ UNCHANGED <<tracker, fired>>
    /\ UNCHANGED agent_vars

ToolsFindElementByText ==
    /\ call.fn = "input"
    /\ \E text \in Queries, prefer_clickable \in BOOLEAN :
          call' = [fn     |-> "tools.find_element_by_text",
                   xml    |-> call.xml,
                   text   |-> text,
                   prefer_clickable |-> prefer_clickable,
                   result |-> tools_find_element_by_text(call.xml, text,
                                                         prefer_clickable)]
    /\ UNCHANGED <<tracker, fired>>
    /\ UNCHANGED agent_vars

FindInputField ==
    /\ call.fn = "input"
    /\ \E label_text \in Labels :
          call' = [fn     |-> "find_input_field",
                   xml    |-> call.xml,
                   label_text |-> label_text,
                   result |-> find_input_field(call.xml, label_text)]
    /\ UNCHANGED <<tracker, fired>>
    /\ UNCHANGED agent_vars

ToolsFindInputField ==
    /\ call.fn = "input"
    /\ \E label_text \in Labels :
          call' = [fn     |-> "tools.find_input_field",
                   xml    |-> call.xml,
                   label_text |-> label_text,
                   result |-> tools_find_input_field(call.xml, label_text)]
    /\ UNCHANGED <<tracker, fired>>
    /\ UNCHANGED agent_vars

(***************************************************************************)
(* The screen summaries handed to the decision-maker: get_screen_elements  *)
(* of the agent package and get_screen_state of main.py, both on the       *)
(* parser of the agent package.                                            *)
(***************************************************************************)
\* list[:n]
Slice(list, n) == SubSeq(list, 1, IF Len(list) < n THEN Len(list) ELSE n)

\* text[:n], in whole words: a word cut in the middle is dropped
RECURSIVE text_prefix(_, _)
text_prefix(text, n) ==
    IF text = <<>> \/ strlen(Head(text)) > n THEN <<>>
    ELSE <<Head(text)>> \o text_prefix(Tail(text), n - strlen(Head(text)) - 1)

\* list.sort(key=lambda e: e['y']): stable, so elements of equal y keep
\* their order
RECURSIVE sort_by_y(_)
sort_by_y(list) ==
    IF list = <<>> THEN <<>>
    ELSE LET last   == list[Len(list)]
             sorted == sort_by_y(SubSeq(list, 1, Len(list) - 1))
             before == SelectSeq(sorted, LAMBDA e : e.y <= last.y)
             after  == SelectSeq(sorted, LAMBDA e : e.y > last.y)
         IN  before \o <<last>> \o after

\* ' '.join of the texts: the words of all of them, and the length
RECURSIVE join_texts(_)
join_texts(texts) ==
    IF texts = <<>> THEN EmptyStr
    ELSE LET rest == join_texts(Tail(texts))
         IN  [tokens |-> value_lower(Head(texts)) \o rest.tokens,
              len    |-> words_len(Head(texts))
                           + (IF Tail(texts) # <<>> THEN 1 ELSE 0) + rest.len]

\* The entry of one parsed element in ui_elements, or none.
ui_element(elem) ==
    LET text      == IF elem.text # <<>> THEN elem.text ELSE elem.content_desc
        elem_type == IF class_contains(elem.class, "EditText") THEN "input"
                     ELSE IF class_contains(elem.class, "Button") \/ elem.clickable
                          THEN "button" ELSE "text"
    IN  IF elem.width > 900 /\ elem.height > 900 THEN <<>>
        ELSE IF elem.center_y > 2300 \/ elem.center_y < 0
                  \/ elem.center_x < 0 \/ elem.center_x > 1080 THEN <<>>
        ELSE IF text # <<>> \/ elem_type = "input"
        THEN << [ text      |-> IF text # <<>> THEN text_prefix(text, 50)
                                ELSE <<"[input", "field]">>,
                  x         |-> elem.center_x,
                  y         |-> elem.center_y,
                  width     |-> elem.width,
                  height    |-> elem.height,
                  clickable |-> elem.clickable,
                  type      |-> elem_type ] >>
        ELSE <<>>

RECURSIVE ui_elements_of(_)
ui_elements_of(elements) ==
    IF elements = <<>> THEN <<>>
    ELSE ui_element(Head(elements)) \o ui_elements_of(Tail(elements))

\* The screen type get_screen_elements detects.
elements_screen_type(ui_elements) ==
    LET all_text == join_texts([i \in DOMAIN ui_elements |-> ui_elements[i].text])
        has(phrase) == In(phrase, all_text)
    IN  IF has(<<"create", "new", "note">>) /\ ~has(<<"create", "a", "vault">>)
        THEN "inside_vault"
        ELSE IF has(<<"create", "a", "vault">>) /\ has(<<"use", "my", "existing">>)
        THEN "initial_vault_choice"
        ELSE IF has(<<"continue", "without", "sync">>) THEN "sync_setup"
        ELSE IF has(<<"vault", "name">>) \/ has(<<"my", "vault">>)
        THEN "vault_configuration"
        ELSE IF has(<<"use", "this", "folder">>) THEN "folder_picker"
        ELSE IF has(<<"files", "in">>) /\ has(<<"documents">>) THEN "folder_picker"
        ELSE IF has(<<"no", "items">>) /\ has(<<"files", "in">>) THEN "folder_picker"
        ELSE IF has(<<"allow">>) /\ Len(ui_elements) < 15 THEN "permission_dialog"
        ELSE IF has(<<"options">>)
                /\ (has(<<"general">>) \/ has(<<"editor">>) \/ has(<<"appearance">>))
        THEN "settings_screen"
        ELSE IF has(<<"appearance">>)
                /\ (has(<<"base", "color">>) \/ has(<<"accent", "color">>)
                    \/ has(<<"theme">>))
        THEN "appearance_settings"
        ELSE IF has(<<"meeting", "notes">>) THEN "note_editor_with_title"
        ELSE IF has(<<"untitled">>) THEN "note_editor"
        ELSE "unknown"

\* get_screen_elements, given the screenshot take_screenshot_compressed
\* returned ("none", "Error" or "data"); the constant hint is left out.
get_screen_elements(screenshot_b64, xml) ==
    LET has_screenshot == screenshot_b64 # "none" /\ screenshot_b64 # "Error"
        shown       == IF has_screenshot THEN screenshot_b64 ELSE "none"
        ui_elements == sort_by_y(ui_elements_of(tools_parse_ui_elements(xml).elements))
    IN  IF startswith_Error(xml)
        THEN [error |-> "Error", elements |-> <<>>, screenshot_base64 |-> shown]
        ELSE [screen_type       |-> elements_screen_type(ui_elements),
              element_count     |-> Len(ui_elements),
              elements          |-> Slice(ui_elements, 20),
              screenshot_base64 |-> shown]

\* find_clickable_elements of the agent package
tools_find_clickable_elements(xml) ==
    IF startswith_Error(xml) THEN <<>>
    ELSE SelectSeq(tools_parse_ui_elements(xml).elements,
                   LAMBDA elem : elem.text # <<>> \/ elem.content_desc # <<>>
                                 \/ elem.clickable)

\* The screen type and the suggestion of get_screen_state.
state_screen_type(elements) ==
    LET all_text == join_texts([i \in DOMAIN elements |-> elements[i].text])
        has(phrase) == In(phrase, all_text)
    IN  IF has(<<"create", "new", "note">>)
        THEN <<"inside_vault", "TEST COMPLETE">>
        ELSE IF has(<<"create", "a", "vault">>) /\ has(<<"use", "my", "existing">>)
        THEN <<"initial_vault_choice", "tap_on_element('Create a vault')">>
        ELSE IF has(<<"continue", "without", "sync">>)
        THEN <<"sync_setup", "tap_on_element('Continue without sync')">>
        ELSE IF has(<<"vault", "name">>)
        THEN <<"vault_configuration", "type_in_field('InternVault')">>
        ELSE IF has(<<"use", "this", "folder">>)
        THEN <<"folder_picker", "tap_on_element('USE THIS FOLDER')">>
        ELSE IF has(<<"allow">>) /\ all_text.len < 500
        THEN <<"permission_dialog", "tap_on_element('Allow')">>
        ELSE <<"unknown", "">>

\* The elements get_screen_state lists: of the first 15, those with a text.
state_listed(xml) ==
    SelectSeq(Slice(tools_find_clickable_elements(xml), 15),
              LAMBDA e : e.text # <<>>)

get_screen_state(xml) ==
    LET elements == tools_find_clickable_elements(xml)
        detected == state_screen_type(elements)
        listed   == state_listed(xml)
    IN  [screen_type      |-> detected[1],
         suggested_action |-> detected[2],
         elements         |-> [i \in DOMAIN listed |->
                                 [text      |-> listed[i].text,
                                  clickable |-> listed[i].clickable]]]

GetScreenElements ==
    /\ call.fn = "input"
    /\ \E screenshot_b64 \in {"none", "Error", "data"} :
          call' = [fn     |-> "get_screen_elements",
                   xml    |-> call.xml,
                   result |-> get_screen_elements(screenshot_b64, call.xml)]
    /\ UNCHANGED <<tracker, fired>>
    /\ UNCHANGED agent_vars

GetScreenState ==
    /\ call.fn = "input"
    /\ call' = [fn     |-> "get_screen_state",
                xml    |-> call.xml,
                result |-> get_screen_state(call.xml)]
    /\ UNCHANGED <<tracker, fired>>
    /\ UNCHANGED agent_vars

NextScreen ==
    \/ ParseUiElements
    \/ ToolsParseUiElements
    \/ FindElementByText
    \/ ToolsFindElementByText
    \/ FindInputField
    \/ ToolsFindInputField
    \/ GetScreenElements
    \/ GetScreenState

SpecScreen == InitScreen /\ [][NextScreen]_vars

Retained(elem) ==
    /\ elem.width > 10
    /\ elem.height > 10
    /\ elem.text # <<>> \/ elem.content_desc # <<>> \/ elem.clickable \/ elem.focusable

\* C17: every element that parse_ui_elements returns, in src/adb_tools.py
\* and in the agent package alike, is wider and higher than 10 and has a
\* text, a description or the clickable or focusable flag; no element comes
\* from a node whose bounds string is malformed.
C17_RetainedElementsOnly ==
    call.fn \in {"parse_ui_elements", "tools.parse_ui_elements"}
        => /\ \A i \in DOMAIN call.result.elements : Retained(call.result.elements[i])
           /\ Len(call.result.elements)
                 <= Cardinality({i \in DOMAIN call.xml.nodes :
                                    call.xml.nodes[i]["bounds"].form = "box"})

\* The markup has no root that ET.fromstring can parse: it is truncated or
\* otherwise malformed, or text precedes it that the clean-up cannot cut
\* (the error string of get_ui_hierarchy is such a text).
NoParseableRoot(xml) ==
    \/ ~xml.well_formed
    \/ xml.leading # "" /\ ~xml.declaration

MatchesOfCall ==
    IF call.fn = "find_element_by_text"
    THEN SelectSeq(parse_ui_elements(call.xml).elements,
                   LAMBDA e : text_matches(e, call.text, call.partial))
    ELSE SelectSeq(tools_parse_ui_elements(call.xml).elements,
                   LAMBDA e : tools_text_matches(e, call.text))

IsButton(elem) == class_contains(lower(elem.class), "button")

\* C19: when several elements match the query and one of them has a class
\* containing 'button', find_element_by_text with prefer_clickable = true
\* returns a match whose class contains 'button', in both variants,
\* whatever the order, flags and positions of the matches.
C19_PrefersButton ==
    (/\ call.fn \in {"find_element_by_text", "tools.find_element_by_text"}
     /\ call.prefer_clickable
     /\ Len(MatchesOfCall) > 1
     /\ \E i \in DOMAIN MatchesOfCall : IsButton(MatchesOfCall[i]))
        => /\ call.result \in Range(MatchesOfCall)
           /\ IsButton(call.result)

\* a button that is not clickable, high on the screen and after a
\* clickable match in document order, is returned
C19_Witness ==
    /\ call.fn \in {"find_element_by_text", "tools.find_element_by_text"}
    /\ call.prefer_clickable
    /\ Len(MatchesOfCall) > 2
    /\ ~IsButton(MatchesOfCall[1]) /\ MatchesOfCall[1].clickable
    /\ MatchesOfCall[1].center_y > 1200
    /\ IsButton(call.result) /\ ~call.result.clickable
    /\ call.result.center_y < 1200

IsFindInputField == call.fn \in {"find_input_field", "tools.find_input_field"}

\* The input elements of the snapshot, as the variant of the call
\* collects them.
InputsOfCall ==
    IF call.fn = "find_input_field"
    THEN input_fields_of(call.xml, call.label_text)
    ELSE tools_input_fields_of(call.xml)

\* The elements of the snapshot that carry the label text.
LabelsOfCall ==
    IF call.fn = "find_input_field"
    THEN SelectSeq(parse_ui_elements(call.xml).elements,
                   LAMBDA e : text_matches(e, call.label_text, TRUE))
    ELSE SelectSeq(tools_parse_ui_elements(call.xml).elements,
                   LAMBDA e : tools_text_matches(e, call.label_text))

\* The element that find_element_by_text resolves the label text to.
ResolvedLabelOfCall ==
    IF call.fn = "find_input_field"
    THEN find_element_by_text(call.xml, call.label_text, TRUE, TRUE)
    ELSE tools_find_element_by_text(call.xml, call.label_text, TRUE)

InputsBelow(label) ==
    {InputsOfCall[i] : i \in {j \in DOMAIN InputsOfCall :
                                 InputsOfCall[j].center_y > label.center_y}}

\* If an input is below the label, the result is one of the inputs below
\* it and none of them is nearer to the label.
NearestBelow(label) ==
    InputsBelow(label) # {}
        => /\ call.result \in InputsBelow(label)
           /\ \A f \in InputsBelow(label) :
                 call.result.center_y - label.center_y <= f.center_y - label.center_y

\* C20 as stated: for every element carrying the label text and one or
\* more input elements whose vertical center is below it,
\* find_input_field(label) returns the input with the smallest positive
\* vertical distance below that element.
C20_NearestBelowAnyLabel ==
    (IsFindInputField /\ call.label_text # None)
        => \A i \in DOMAIN LabelsOfCall : NearestBelow(LabelsOfCall[i])

\* C20, amended: the label is the one element that find_element_by_text
\* resolves the label text to (a button, then a clickable element, first
\* among several carrying the text); find_input_field(label) returns the
\* input with the smallest positive vertical distance below that element.
C20_NearestBelowResolvedLabel ==
    (IsFindInputField /\ call.label_text # None /\ ResolvedLabelOfCall # None)
        => NearestBelow(ResolvedLabelOfCall)

\* two inputs below the label, the first in document order the farther
\* one, and the nearer one returned
C20_Witness ==
    /\ IsFindInputField /\ call.label_text # None
    /\ ResolvedLabelOfCall # None
    /\ Cardinality(InputsBelow(ResolvedLabelOfCall)) > 1
    /\ InputsOfCall[1] \in InputsBelow(ResolvedLabelOfCall)
    /\ call.result # InputsOfCall[1]
    /\ call.result.center_y < InputsOfCall[1].center_y

(***************************************************************************)
(* Further properties of the sequencer of src/agents.py.                   *)
(***************************************************************************)
\* The last iteration planned on a history ending in a focus-input record
\* whose outcome is failed, and appended a record.
AfterFocusFailure ==
    /\ screenshot = "ok"
    /\ Len(history) >= 2
    /\ Last(Before(history)).action_type \in FocusInput
    /\ Last(Before(history)).result = "failed"

\* The record the last iteration appended is a type_text that the
\* sequencer put in place of what the external model would propose.
ForcedTypeText ==
    /\ screenshot = "ok"
    /\ history # <<>>
    /\ Last(history).action_type = "type_text"
    /\ source \in {"required", "safeguard"}

\* C22: a forced type_text is recorded only after a focus-input record
\* whose outcome is success; after a focus-input record whose outcome is
\* failed the action recorded next is the externally proposed one, kind and
\* parameters unchanged.
C22_SubstitutionOnlyAfterSuccess ==
    /\ ForcedTypeText => AfterFocusSuccess
    /\ (AfterFocusFailure /\ proposal.kind = "json")
          => /\ Last(history).action_type = proposal.action.action_type
             /\ Last(history).action_params = proposal.action.action_params

\* C24: when the last record is a successful focus-input and the external
\* model proposes clear_and_type, the proposal is what is executed and
\* recorded: kind and parameters unchanged, not a forced type_text, with
\* the outcome of the device.
C24_ClearAndTypeExecuted ==
    (/\ AfterFocusSuccess
     /\ proposal.kind = "json"
     /\ proposal.action.action_type = "clear_and_type")
        => /\ source = "model"
           /\ Last(history).action_type = "clear_and_type"
           /\ Last(history).action_params = proposal.action.action_params
           /\ device = "ok" => Last(history).result = "success"

Terminal == {"done", "failed"}

\* C23: a record of kind done or failed is the last record of the run's
\* history: with it the run is over (no further planning, no further
\* device action), and it was recorded without being passed to the
\* executor.
C23_TerminalRecordIsLast ==
    \A i \in DOMAIN history :
        history[i].action_type \in Terminal
            => /\ i = Len(history)
               /\ RunOver
               /\ device = "none"
               /\ history[i].result \in {"DONE", "FAILED"}

\* a run that the model's done ended after two device actions
C23_Witness ==
    /\ pc = "returned"
    /\ Len(history) = 3
    /\ step_count = 3
    /\ Last(history).action_type = "done"
    /\ Last(history).result = "DONE"
    /\ source = "model"

\* C27: every run_test, the first and each one run_test_suite makes after
\* an earlier run, enters its loop with an empty planner history and a
\* step count of 0, so what its detectors and its focus-then-type rule read
\* was recorded in the run itself.
C27_RunOwnsItsHistory ==
    [][ (pc # "loop" /\ pc' = "loop") => history' = <<>> /\ step_count' = 0 ]_vars

\* the second run of a suite at its start
C27_Witness ==
    /\ Len(results) = 1
    /\ pc = "loop"
    /\ step_count = 0
    /\ history = <<>>

TypedWith(rec) == rec.action_type = "type_text" /\ rec.result = "success"

\* Two successful type_text records at i and i + 2, whatever their texts,
\* with a press_enter record between them.
TypedTwiceAt(i) ==
    /\ i + 2 <= Len(history)
    /\ TypedWith(history[i])
    /\ history[i + 1].action_type = "press_enter"
    /\ TypedWith(history[i + 2])

C28_DifferentTexts ==
    /\ Len(history) = 5
    /\ TypedTwiceAt(2)
    /\ history[2].action_params # history[4].action_params
    /\ history[5].action_type = "press_enter"

\* The first expected text, in the order InternVault, Meeting Notes, Daily
\* Standup, that the description mentions.
FirstMentioned(tc) ==
    IF "InternVault" \in Mentioned(tc) THEN "InternVault"
    ELSE IF "Meeting Notes" \in Mentioned(tc) THEN "Meeting Notes"
    ELSE "Daily Standup"

\* C29: a type_text record that immediately follows a successful
\* focus-input record carries the first expected text, in the order
\* InternVault, Meeting Notes, Daily Standup, that the description
\* mentions: for a description with both Meeting Notes and Daily Standup it
\* carries Meeting Notes, never Daily Standup.
C29_FirstMatchWins ==
    (/\ AfterFocusSuccess
     /\ Mentioned(test_case) # {}
     /\ Last(history).action_type = "type_text")
        => /\ Last(history).action_params =
                 << <<"text", FirstMentioned(test_case)>> >>
           /\ {"Meeting Notes", "Daily Standup"} \subseteq Mentioned(test_case)
                 => Last(history).action_params # << <<"text", "Daily Standup">> >>

\* Meeting Notes typed under the description that mentions both texts
C29_Witness ==
    /\ AfterFocusSuccess
    /\ Mentioned(test_case) = {"Meeting Notes", "Daily Standup"}
    /\ Last(history).action_type = "type_text"
    /\ Last(history).action_params = << <<"text", "Meeting Notes">> >>
    /\ source = "required"

RATE_LIMITED_WAIT ==
    [action_type |-> "wait", action_params |-> << <<"seconds", "2">> >>,
     result |-> "success"]

OverrideApplies ==
    /\ Len(history) >= 2
    /\ Last(Before(history)).action_type \in FocusInput
    /\ Mentioned(test_case) # {}

ObserveSteps(t) ==
    {idx \in 0..(Len(ideal_workflow(t)) - 1) :
        ideal_workflow(t)[idx + 1].tool = "get_screen_elements"}

UnmatchedObserveSteps(t) == ObserveSteps(t) \ t.matched_ideal_indices

NewlyMatched == tracker'.matched_ideal_indices \ tracker.matched_ideal_indices

\* C25 as stated: a record_step whose action kind is get_screen_elements
\* claims the lowest-index unmatched get_screen_elements reference step,
\* if one remains, whatever its parameters; a record_step of any other
\* kind claims no get_screen_elements reference step.
C25_ObserveStepsByKind ==
    [][ \A in \in StepInputs :
           IsRecordStep(in)
              => IF in.action_type = "get_screen_elements"
                 THEN NewlyMatched = Lowest(UnmatchedObserveSteps(tracker))
                 ELSE NewlyMatched \cap ObserveSteps(tracker) = {} ]_vars

\* C25 amended: the same with the action kind compared with
\* get_screen_elements without regard to case and underscores.
C25_ObserveStepsByKindUpToCase ==
    [][ \A in \in StepInputs :
           IsRecordStep(in)
              => IF EqualUpToCaseAndUnderscores(in.action_type,
                                                "get_screen_elements")
                 THEN NewlyMatched = Lowest(UnmatchedObserveSteps(tracker))
                 ELSE NewlyMatched \cap ObserveSteps(tracker) = {} ]_vars

\* a get_screen_elements step with parameters claimed reference step 2 while
\* reference step 1, of another tool, is unmatched
C25_Witness ==
    /\ call.fn = "record_step"
    /\ call.result.action_type = "get_screen_elements"
    /\ call.result.action_params # <<>>
    /\ call.result.matched = [idx |-> 2]
    /\ 1 \notin tracker.matched_ideal_indices

StepCountsAgree(t) ==
    /\ t.total_steps = Len(t.steps)
    /\ t.total_steps = t.successful_steps + t.failed_steps
    /\ t.error_count = t.failed_steps
    /\ \A i \in DOMAIN t.steps : t.steps[i].base_reward = -5
    /\ t.step_penalty_total = t.total_steps * (-5)

\* C26: every record_step adds one to total_steps and no other call
\* changes it, so total_steps is the number n of record_step calls; and
\* after every call total_steps = len(steps) = successful_steps +
\* failed_steps, error_count = failed_steps, every step's base_reward is
\* -0.05 and step_penalty_total = n * (-0.05).
C26_StepCounts ==
    [][ /\ tracker'.total_steps =
              tracker.total_steps + (IF call'.fn = "record_step" THEN 1 ELSE 0)
        /\ StepCountsAgree(tracker') ]_vars

\* three steps recorded, succeeded and failed ones among them
C26_Witness ==
    /\ call.fn = "record_step"
    /\ tracker.total_steps = 3
    /\ tracker.successful_steps = 2
    /\ tracker.failed_steps = 1
    /\ tracker.step_penalty_total = -15

\* The vertical positions of the elements a summary lists, in its order.
ListedPositions ==
    CASE call.fn = "get_screen_elements" ->
            [i \in DOMAIN call.result.elements |-> call.result.elements[i].y]
      [] call.fn = "get_screen_state" ->
            LET listed == state_listed(call.xml)
            IN  [i \in DOMAIN listed |-> listed[i].center_y]
      [] OTHER -> <<>>

NonDecreasing(positions) ==
    \A i, j \in DOMAIN positions : i < j => positions[i] <= positions[j]

\* C21: for every snapshot the screen summary lists at most 20 elements, and
\* the listed elements are in the order of non-decreasing vertical position.
C21_SummaryBoundedAndOrdered ==
    call.fn \in {"get_screen_elements", "get_screen_state"} =>
        /\ Len(call.result.elements) <= 20
        /\ NonDecreasing(ListedPositions)

\* The part of C21 that get_screen_elements keeps, and the bound that
\* both summaries keep.
C21_ElementsSummaryOrdered ==
    /\ call.fn = "get_screen_elements" =>
          /\ Len(call.result.elements) <= 20
          /\ NonDecreasing(ListedPositions)
    /\ call.fn = "get_screen_state" => Len(call.result.elements) <= 15

\* a list screen of more than 20 rows, listed from the bottom up, cut to 20
C21_Truncated ==
    /\ call.fn = "get_screen_elements"
    /\ "element_count" \in DOMAIN call.result
    /\ call.result.element_count > 20
    /\ Len(call.result.elements) = 20
    /\ call.xml.nodes[1]["bounds"].y1 > call.xml.nodes[2]["bounds"].y1

====
